---- MODULE Spec2Model ----
(***************************************************************************)
(* A model of new_rpa_system.py (class NewRPASystem): the input            *)
(* validation, the Excel writer and the Word marker replacer.              *)
(*                                                                         *)
(* Strings are sequences of characters; a character is a one-element       *)
(* token.  Non-ASCII characters and control characters are written as      *)
(* named tokens:                                                           *)
(*   "NL"   U+000A line feed            "SP"   U+0020 space                *)
(*   "IDSP" U+3000 ideographic space    "KA"   a katakana letter (U+30xx)  *)
(*   "FW1"  U+FF11 fullwidth digit one  "x"    a Latin letter              *)
(* Japanese literals of the program are written as ASCII tokens; the       *)
(* comment at each definition gives the literal it stands for.             *)
(***************************************************************************)
EXTENDS Integers, Sequences, FiniteSets, TLC

VARIABLES
    args,               \* the four strings the validation check is run on
    username_var,       \* tk.StringVar of the user name entry
    model_var,          \* tk.StringVar of the model entry
    manufacturing_var,  \* tk.StringVar of the manufacturing number entry
    order_var,          \* tk.StringVar of the order number entry
    fs,                 \* the file system: path -> file content
    now,                \* the wall clock, in ticks
    dialogs,            \* the messagebox calls of the last operation, in order
    io_log,             \* the file I/O calls of the last operation, in order
    result_text,        \* the tk.Text of the result pane
    call,               \* the last operation: its arguments and its outcome
    prev_call,          \* the operation before it
    steps               \* how many more operations are run

vars == <<args, username_var, model_var, manufacturing_var, order_var,
          fs, now, dialogs, io_log, result_text, call, prev_call, steps>>

(***************************************************************************)
(* Characters and character classes                                        *)
(***************************************************************************)

\* [0-9]
AsciiDigit == {"0", "1", "2", "3", "4", "5", "6", "7", "8", "9"}

\* \d of a str pattern: every Unicode decimal digit, the ASCII ones and
\* (here) the fullwidth digit one
Digit == AsciiDigit \cup {"FW1"}

\* [1-9]
Digit19 == AsciiDigit \ {"0"}

\* [぀-ゟ゠-ヿ一-龯＀-￯] of validate_username
JapaneseRange == {"KA", "FW1"}

\* what str.strip() removes: Unicode whitespace
Whitespace == {"SP", "NL", "IDSP"}

\* str.strip()
RECURSIVE LStrip(_)
LStrip(s) ==
    IF s # <<>> /\ Head(s) \in Whitespace THEN LStrip(Tail(s)) ELSE s

RECURSIVE RStrip(_)
RStrip(s) ==
    IF s # <<>> /\ s[Len(s)] \in Whitespace
    THEN RStrip(SubSeq(s, 1, Len(s) - 1))
    ELSE s

Strip(s) == RStrip(LStrip(s))

\* s[a:b] of Python, 0-based and end-exclusive, clipped to the string
Slice(s, a, b) ==
    LET hi == IF b < Len(s) THEN b ELSE Len(s)
    IN  IF a >= hi THEN <<>> ELSE SubSeq(s, a + 1, hi)

(***************************************************************************)
(* Regular expressions                                                     *)
(* A pattern "^(p1|p2|...)c1 c2 ... cn$" is a set of literal prefixes      *)
(* followed by a sequence of character classes.                            *)
(***************************************************************************)

SUPPORTED_MODELS ==
    { <<"1","0","0">>, <<"2","0","0">>, <<"2","0","1">>,
      <<"3","5","0">>, <<"3","5","1">> }

\* r"^(100|200|201|350|351)-\d{4}\.\d{6}$"
MODEL_PATTERN ==
    [ prefixes |-> SUPPORTED_MODELS,
      classes  |-> << {"-"}, Digit, Digit, Digit, Digit, {"."},
                      Digit, Digit, Digit, Digit, Digit, Digit >> ]

\* r"^J000\d{4}0[1-9]00$"
MANUFACTURING_PATTERN ==
    [ prefixes |-> { <<"J","0","0","0">> },
      classes  |-> << Digit, Digit, Digit, Digit, {"0"}, Digit19, {"0"}, {"0"} >> ]

\* r"^[ONT]\d{4}$"
ORDER_PATTERN ==
    [ prefixes |-> { <<>> },
      classes  |-> << {"O", "N", "T"}, Digit, Digit, Digit, Digit >> ]

\* "$" without re.MULTILINE: at the end of the string, or just before a
\* line feed that is the string's last character
DollarAt(s, n) ==
    \/ n = Len(s)
    \/ n = Len(s) - 1 /\ s[Len(s)] = "NL"

\* re.match(pattern, s) is not None
ReMatch(pattern, s) ==
    \E pre \in pattern.prefixes :
        LET n == Len(pre) + Len(pattern.classes)
        IN  /\ Len(s) >= n
            /\ SubSeq(s, 1, Len(pre)) = pre
            /\ \A i \in 1..Len(pattern.classes) :
                   s[Len(pre) + i] \in pattern.classes[i]
            /\ DollarAt(s, n)

\* re.search(r"[...]", s) is not None, for a one-class pattern
ReSearchClass(class, s) == \E i \in 1..Len(s) : s[i] \in class

(***************************************************************************)
(* Validation (the methods under "検証メソッド")                             *)
(* A result is the dict {"valid": bool, "message": str}; a message is a    *)
(* sequence of tokens.                                                     *)
(***************************************************************************)

Valid == [valid |-> TRUE, message |-> <<>>]
Invalid(msg) == [valid |-> FALSE, message |-> msg]

\* the messages, by token:
\*  "enter"        "...を入力してください。"
\*  "blank"        "ユーザ名は空白のみでは入力できません。"
\*  "no_japanese"  "ユーザ名には日本語文字を含む必要があります。"
\*  "format"       "...の形式が正しくありません。..."
\*  "mismatch"     "製造番号と受注番号が一致しません。", then
\*                 "製造番号の5-8文字目: " and the manufacturing segment, then
\*                 "受注番号の1-4文字目: " and the order segment

validate_username(username) ==
    IF username = <<>> THEN Invalid(<<"enter">>)
    ELSE IF Strip(username) = <<>> THEN Invalid(<<"blank">>)
    ELSE IF ~ReSearchClass(JapaneseRange, username) THEN Invalid(<<"no_japanese">>)
    ELSE Valid

validate_model(model) ==
    IF model = <<>> THEN Invalid(<<"enter">>)
    ELSE IF ~ReMatch(MODEL_PATTERN, model) THEN Invalid(<<"format">>)
    ELSE Valid

validate_manufacturing_number(manufacturing) ==
    IF manufacturing = <<>> THEN Invalid(<<"enter">>)
    ELSE IF ~ReMatch(MANUFACTURING_PATTERN, manufacturing) THEN Invalid(<<"format">>)
    ELSE Valid

validate_order_number(order) ==
    IF order = <<>> THEN Invalid(<<"enter">>)
    ELSE IF ~ReMatch(ORDER_PATTERN, order) THEN Invalid(<<"format">>)
    ELSE Valid

\* a faulty variant: the order segment taken one character early (order[0:4])
ConsistencyOffByOne(manufacturing, order) ==
    LET manufacturing_middle == Slice(manufacturing, 4, 8)
        order_prefix == Slice(order, 0, 4)
    IN  IF manufacturing_middle # order_prefix
        THEN Invalid(<<"mismatch", "manufacturing_5_8:">> \o manufacturing_middle
                     \o <<"order_1_4:">> \o order_prefix)
        ELSE Valid

\* the message of a mismatch carries both extracted segments
validate_manufacturing_order_consistency(manufacturing, order) ==
    LET manufacturing_middle == Slice(manufacturing, 4, 8)
        order_prefix == Slice(order, 1, 5)
    IN  IF manufacturing_middle # order_prefix
        THEN Invalid(<<"mismatch", "manufacturing_5_8:">> \o manufacturing_middle
                     \o <<"order_1_4:">> \o order_prefix)
        ELSE Valid

\* the field names: "username" is "ユーザ名", "model" is "型番",
\* "manufacturing" is "製造番号", "order" is "受注番号"
Validations(username, model, manufacturing, order) ==
    << <<"username", validate_username(username)>>,
       <<"model", validate_model(model)>>,
       <<"manufacturing", validate_manufacturing_number(manufacturing)>>,
       <<"order", validate_order_number(order)>> >>

\* a faulty variant: the loop reports the last failing field, not the first
ValidateInputsLastFailure(username, model, manufacturing, order) ==
    LET validations == Validations(username, model, manufacturing, order)
        failed == {i \in 1..Len(validations) : ~validations[i][2].valid}
    IN  IF failed # {}
        THEN LET i == CHOOSE j \in failed : \A k \in failed : j >= k
             IN  Invalid(<<validations[i][1], ":">> \o validations[i][2].message)
        ELSE validate_manufacturing_order_consistency(manufacturing, order)

\* f"{field_name}: {result['message']}" of the first failing field, else the
\* consistency result as it is
validate_inputs(username, model, manufacturing, order) ==
    LET validations == Validations(username, model, manufacturing, order)
        failed == {i \in 1..Len(validations) : ~validations[i][2].valid}
    IN  IF failed # {}
        THEN LET i == CHOOSE j \in failed : \A k \in failed : j <= k
             IN  Invalid(<<validations[i][1], ":">> \o validations[i][2].message)
        ELSE validate_manufacturing_order_consistency(manufacturing, order)

(***************************************************************************)
(* The inputs of the validation check                                      *)
(***************************************************************************)

\* at most this many characters are put after (and before) a candidate
MaxExtra == 1

\* Seq(chars) up to length n
RECURSIVE SeqsUpTo(_, _)
SeqsUpTo(chars, n) ==
    IF n = 0 THEN { <<>> }
    ELSE LET shorter == SeqsUpTo(chars, n - 1)
         IN  shorter \cup { s \o <<c>> : s \in shorter, c \in chars }

Trailers == SeqsUpTo({"NL", "x"}, MaxExtra)
Leaders == SeqsUpTo({"x"}, MaxExtra)

Framed(cores) ==
    { <<>> } \cup { l \o c \o t : l \in Leaders, c \in cores, t \in Trailers }

ModelTail == <<"-","2","3","1","2",".","0","0","3","0","0","0">>

ModelCores ==
    { p \o ModelTail : p \in SUPPORTED_MODELS \cup { <<"3","0","0">>, <<"2","0">> } }
    \cup
    { <<"2","0","1","-","2","3","1",".","0","0","3","0","0","0">>,
      <<"2","0","1","-","2","3","1","2","0",".","0","0","3","0","0","0">>,
      <<"2","0","1","-","2","3","1","2",".","0","0","3","0","0">>,
      <<"2","0","1","2","3","1","2",".","0","0","3","0","0","0">>,
      <<"2","0","1","-","2","3","1","2","0","0","3","0","0","0">>,
      <<"2","0","1",".","2","3","1","2","-","0","0","3","0","0","0">>,
      <<"2","0","1","-","2","3","1","FW1",".","0","0","3","0","0","0">>,
      <<"2","0","1","-","2","3","1","x",".","0","0","3","0","0","0">> }

ManufacturingCores ==
    { <<"J","0","0","0">> \o d \o <<"0", n, "0", "0">> :
        d \in { <<"2","3","1","5">>, <<"9","9","9","9">>, <<"2","3","1","FW1">> },
        n \in {"1", "9", "0"} }
    \cup
    { <<"J","0","0","0","2","3","1","5","1","0","0">>,
      <<"J","0","0","0","2","3","1","5","0","2","0","0">>,
      <<"K","0","0","0","2","3","1","5","0","1","0","0">>,
      <<"J","0","0","1","2","3","1","5","0","1","0","0">>,
      <<"J","0","0","0","2","3","1","5","0","FW1","0","0">>,
      <<"J","0","0","0","2","3","1","5","0","1","0","1">> }

OrderCores ==
    { <<l>> \o d :
        l \in {"O", "N", "T", "X"},
        d \in { <<"2","3","1","5">>, <<"9","9","9","9">>, <<"2","3","1","FW1">> } }
    \cup
    { <<"O","2","3","1">>, <<"2","3","1","5">>, <<"O","2","3","1","5","5">>,
      <<"O","2","3","x","5">> }

ModelInputs == Framed(ModelCores)
ManufacturingInputs == Framed(ManufacturingCores)
OrderInputs == Framed(OrderCores)

UsernameInputs ==
    { <<>>, <<"SP">>, <<"IDSP">>, <<"NL">>, <<"x">>, <<"KA">>, <<"FW1">>,
      <<"x","KA">>, <<"SP","KA">>, <<"x","SP">> }

\* the few values the other fields take while one field runs through its
\* whole input set
FewModels ==
    { <<>>, <<"2","0","1">> \o ModelTail, <<"3","0","0">> \o ModelTail,
      <<"3","5","1">> \o ModelTail \o <<"NL">> }
FewManufacturing ==
    { <<>>,
      <<"J","0","0","0","2","3","1","5","0","1","0","0">>,
      <<"J","0","0","0","9","9","9","9","0","1","0","0">>,
      <<"J","0","0","0","2","3","1","5","0","0","0","0">>,
      <<"J","0","0","0","2","3","1","5","0","1","0","0","NL">> }
FewOrders ==
    { <<>>, <<"O","2","3","1","5">>, <<"T","9","9","9","9">>,
      <<"X","2","3","1","5">>, <<"N","2","3","1","5","NL">> }
FewUsernames == { <<>>, <<"x">>, <<"KA">>, <<"x","KA">> }

InputTuples ==
    (UsernameInputs \X FewModels \X FewManufacturing \X FewOrders)
    \cup (FewUsernames \X ModelInputs \X FewManufacturing \X FewOrders)
    \cup (FewUsernames \X FewModels \X ManufacturingInputs \X FewOrders)
    \cup (FewUsernames \X FewModels \X FewManufacturing \X OrderInputs)


(***************************************************************************)
(* Paths, the clock and the output name                                    *)
(* A path is a sequence of tokens: "/" (os.sep), "." (os.extsep) and names *)
(* that hold neither.  The empty path stands for None and for "".          *)
(***************************************************************************)

None == <<>>

\* "check1.xlsx"
DEFAULT_EXCEL_FILE == <<"check1", ".", "xlsx">>
\* "check2.docx"
DEFAULT_WORD_FILE == <<"check2", ".", "docx">>

\* the largest index of tok in p, 0 when absent (str.rfind, 1-based)
RFind(p, tok) ==
    LET at == {i \in 1..Len(p) : p[i] = tok}
    IN  IF at = {} THEN 0 ELSE CHOOSE i \in at : \A j \in at : i >= j

\* os.path.splitext(p): the extension starts at the last dot of the last
\* component, unless only dots precede it there
SplitExt(p) ==
    LET sepIndex == RFind(p, "/")
        dotIndex == RFind(p, ".")
    IN  IF /\ dotIndex > sepIndex
           /\ \E i \in (sepIndex + 1)..(dotIndex - 1) : p[i] # "."
        THEN <<SubSeq(p, 1, dotIndex - 1), SubSeq(p, dotIndex, Len(p))>>
        ELSE <<p, <<>> >>

\* the clock ticks this many times a second (datetime.now() is finer than
\* the second that strftime("%Y%m%d_%H%M%S") prints)
TicksPerSecond == 2

\* datetime.now().strftime("%Y%m%d_%H%M%S"): the second the tick lies in
Timestamp(t) == ToString(t \div TicksPerSecond)

\* a faulty variant: the output name is the source name
OutputPathInPlace(file_path, t) == file_path

\* a faulty variant: the output name carries no timestamp
OutputPathNoTimestamp(file_path, t) ==
    LET base_name == SplitExt(file_path)[1]
        extension == SplitExt(file_path)[2]
    IN  base_name \o <<"_processed_">> \o extension

\* f"{base_name}_processed_{timestamp}{extension}"
OutputPath(file_path, t) ==
    LET base_name == SplitExt(file_path)[1]
        extension == SplitExt(file_path)[2]
    IN  base_name \o <<"_processed_", Timestamp(t)>> \o extension

\* os.path.exists
Exists(files, path) == path \in DOMAIN files

(***************************************************************************)
(* Text search and replacement                                             *)
(***************************************************************************)

\* "検査対象情報", six characters
REPLACEMENT_KEY == <<"k1", "k2", "k3", "k4", "k5", "k6">>

\* an argument that is not a str (None): str.replace raises TypeError on it
NotAStr == <<"not_a_str">>

\* old in s
Contains(s, old) ==
    \E i \in 1..(Len(s) - Len(old) + 1) : SubSeq(s, i, i + Len(old) - 1) = old

\* s.replace(old, new) for a non-empty old: every non-overlapping
\* occurrence, from the left
RECURSIVE StrReplace(_, _, _)
StrReplace(s, old, new) ==
    IF Len(s) < Len(old) THEN s
    ELSE IF SubSeq(s, 1, Len(old)) = old
         THEN new \o StrReplace(SubSeq(s, Len(old) + 1, Len(s)), old, new)
         ELSE <<Head(s)>> \o StrReplace(Tail(s), old, new)

(***************************************************************************)
(* The Word document                                                       *)
(* A document holds the nodes of its main part (document.xml) in document  *)
(* order, and the nodes of the header part and of the footer part of its   *)
(* section.  A node is a text unit [region, para, text] or an XML comment  *)
(* (region "comment").  The regions of a text unit:                        *)
(*   "body"          a run of a paragraph directly in the body             *)
(*   "table"         a run of a cell of a table directly in the body       *)
(*   "nested_table"  a run of a cell of a table inside a table cell        *)
(*   "shape"         a text node of a text box or floating shape           *)
(*   "header", "footer"            a run of a paragraph of the header/footer*)
(*   "header_table", "footer_table" a run of a table cell in them          *)
(***************************************************************************)

Node(region, para, text) == [region |-> region, para |-> para, text |-> text]

\* paragraph.text: the texts of the paragraph's runs, concatenated
RECURSIVE ParagraphText(_, _, _)
ParagraphText(nodes, region, para) ==
    IF nodes = <<>> THEN <<>>
    ELSE (IF Head(nodes).region = region /\ Head(nodes).para = para
          THEN Head(nodes).text ELSE <<>>)
         \o ParagraphText(Tail(nodes), region, para)

\* for run in ...: if search_text in run.text: run.text = replace; count += 1
\* over the nodes of the given regions, first hit..last index
ReplaceInRuns(nodes, regions, last, search_text, replace_text) ==
    LET hit(i) == /\ i <= last
                  /\ nodes[i].region \in regions
                  /\ Contains(nodes[i].text, search_text)
    IN  [ nodes |-> [i \in DOMAIN nodes |->
                        IF hit(i)
                        THEN [nodes[i] EXCEPT
                                !.text = StrReplace(@, search_text, replace_text)]
                        ELSE nodes[i]],
          count |-> Cardinality({i \in DOMAIN nodes : hit(i)}) ]

\* a faulty variant: the replacement is made in the paragraph's whole text,
\* which is put in the paragraph's first run
BodyParagraphPassJoined(nodes, search_text, replace_text) ==
    LET hit(i) == /\ nodes[i].region = "body"
                  /\ Contains(ParagraphText(nodes, "body", nodes[i].para), search_text)
        first(i) == \A j \in 1..(i - 1) :
                        ~(nodes[j].region = "body" /\ nodes[j].para = nodes[i].para)
    IN  [ nodes |-> [i \in DOMAIN nodes |->
                        IF ~hit(i) THEN nodes[i]
                        ELSE IF first(i)
                        THEN [nodes[i] EXCEPT
                                !.text = StrReplace(ParagraphText(nodes, "body",
                                                                  nodes[i].para),
                                                    search_text, replace_text)]
                        ELSE [nodes[i] EXCEPT !.text = <<>>]],
          count |-> Cardinality({i \in DOMAIN nodes : hit(i) /\ first(i)}) ]

\* doc.paragraphs: the runs of the paragraphs directly in the body, and only
\* of a paragraph whose whole text holds the search text
BodyParagraphPass(nodes, search_text, replace_text) ==
    LET hit(i) == /\ nodes[i].region = "body"
                  /\ Contains(ParagraphText(nodes, "body", nodes[i].para), search_text)
                  /\ Contains(nodes[i].text, search_text)
    IN  [ nodes |-> [i \in DOMAIN nodes |->
                        IF hit(i)
                        THEN [nodes[i] EXCEPT
                                !.text = StrReplace(@, search_text, replace_text)]
                        ELSE nodes[i]],
          count |-> Cardinality({i \in DOMAIN nodes : hit(i)}) ]

\* doc.tables -> rows -> cells -> paragraphs -> runs: the tables directly in
\* the body; a table inside a cell is reached through cell.tables only
TableRegions == {"table"}

\* doc.inline_shapes: an InlineShape has no text_frame attribute, so the
\* hasattr test lets no shape through
InlineShapeRegions == {}

\* run._element is a w:r element, whose tag never ends with "drawing"
AnchoredDrawingRegions == {}

\* doc._element.iter(): every element of document.xml whose tag ends in "t"
XmlTextRegions == {"body", "table", "nested_table", "shape"}

\* section.header.paragraphs / section.footer.paragraphs: the paragraphs
\* directly in the header or footer
HeaderRegions == {"header"}
FooterRegions == {"footer"}

\* the index of the first node whose tag is not a string (an XML comment:
\* elem.tag.endswith raises AttributeError there), else Len + 1
FirstComment(nodes) ==
    LET at == {i \in DOMAIN nodes : nodes[i].region = "comment"}
    IN  IF at = {} THEN Len(nodes) + 1 ELSE CHOOSE i \in at : \A j \in at : i <= j

\* a faulty variant: the exception of pass 5 is not caught there and leaves
\* the function too
PassRaisesInFallbackToo(doc, search_text, replace_text) ==
    \/ FirstComment(doc.body) <= Len(doc.body)
    \/ /\ replace_text = NotAStr
       /\ ReplaceInRuns(doc.body, XmlTextRegions,
                        Len(doc.body), search_text, replace_text).count
          + ReplaceInRuns(doc.header, HeaderRegions, Len(doc.header),
                          search_text, replace_text).count
          + ReplaceInRuns(doc.footer, FooterRegions, Len(doc.footer),
                          search_text, replace_text).count > 0

\* whether an exception leaves the passes (to the except clause at 700):
\* run.text.replace(search_text, replace_text) raises TypeError for a
\* replace_text that is no str, at the first run a pass would rewrite; inside
\* the try block of pass 5 it only ends that pass
PassRaises(doc, search_text, replace_text) ==
    /\ replace_text = NotAStr
    /\ \/ BodyParagraphPass(doc.body, search_text, replace_text).count > 0
       \/ ReplaceInRuns(doc.body,
                        TableRegions \cup InlineShapeRegions \cup AnchoredDrawingRegions,
                        Len(doc.body), search_text, replace_text).count > 0
       \/ ReplaceInRuns(doc.header, HeaderRegions, Len(doc.header),
                        search_text, replace_text).count > 0
       \/ ReplaceInRuns(doc.footer, FooterRegions, Len(doc.footer),
                        search_text, replace_text).count > 0

\* the six passes over an opened document: the document after them and the
\* replacement count
ReplacePasses(doc, search_text, replace_text) ==
    LET p1 == BodyParagraphPass(doc.body, search_text, replace_text)
        p2 == ReplaceInRuns(p1.nodes, TableRegions, Len(doc.body),
                            search_text, replace_text)
        p3 == ReplaceInRuns(p2.nodes, InlineShapeRegions, Len(doc.body),
                            search_text, replace_text)
        p4 == ReplaceInRuns(p3.nodes, AnchoredDrawingRegions, Len(doc.body),
                            search_text, replace_text)
        \* the try block: the loop stops at the first node that raises
        p5 == ReplaceInRuns(p4.nodes, XmlTextRegions, FirstComment(p4.nodes) - 1,
                            search_text, replace_text)
        h  == ReplaceInRuns(doc.header, HeaderRegions, Len(doc.header),
                            search_text, replace_text)
        f  == ReplaceInRuns(doc.footer, FooterRegions, Len(doc.footer),
                            search_text, replace_text)
        \* run.text.replace(search_text, None) raises before anything is
        \* assigned or counted
        bad == replace_text = NotAStr
    IN  [ doc   |-> IF bad THEN doc
                    ELSE [doc EXCEPT !.body = p5.nodes, !.header = h.nodes,
                                     !.footer = f.nodes],
          count |-> IF bad THEN 0
                    ELSE p1.count + p2.count + p3.count + p4.count + p5.count
                         + h.count + f.count ]


(***************************************************************************)
(* The Excel workbook                                                      *)
(* [kind |-> "xlsx", sheets |-> name -> (cell -> value)]; the empty value  *)
(* is an empty cell.  The sheet names: "assembly_check" is "組立チェック表",  *)
(* "frame_test" is "フレームテスト検査表", "frame_assembly" is              *)
(* "フレーム組立検査表", "other" is any other sheet of the workbook.         *)
(***************************************************************************)

Cells == {"A1", "B3", "B4", "B5", "F2", "F3", "F4", "F5"}

\* the label + value strings: f"ユーザー名：{username}", f"機種-型番：{model}",
\* f"受注番号：{order}", f"製造番号：{manufacturing}"
CellTexts(username, model, manufacturing, order) ==
    << <<"username_label">> \o username, <<"model_label">> \o model,
       <<"order_label">> \o order, <<"manufacturing_label">> \o manufacturing >>

\* a faulty variant: the sheet is written whether the workbook has it or not
WriteSheetAlways(sheets, name, addresses, texts) ==
    LET old == IF name \in DOMAIN sheets THEN sheets[name] ELSE [c \in Cells |-> <<>>]
        new == [c \in Cells |->
                   IF \E k \in 1..4 : addresses[k] = c
                   THEN texts[CHOOSE k \in 1..4 : addresses[k] = c]
                   ELSE old[c]]
    IN  [n \in DOMAIN sheets \cup {name} |-> IF n = name THEN new ELSE sheets[n]]

\* if name in wb.sheetnames: ws = wb[name]; ws[address] = text, four times
WriteSheet(sheets, name, addresses, texts) ==
    IF name \in DOMAIN sheets
    THEN [sheets EXCEPT ![name] =
            [c \in Cells |->
                IF \E k \in 1..4 : addresses[k] = c
                THEN texts[CHOOSE k \in 1..4 : addresses[k] = c]
                ELSE @[c]]]
    ELSE sheets

\* the three blocks of write_to_excel between load_workbook and save
WriteSheets(sheets, username, model, manufacturing, order) ==
    LET texts == CellTexts(username, model, manufacturing, order)
        s1 == WriteSheet(sheets, "assembly_check", <<"B4", "B5", "F4", "F5">>, texts)
        s2 == WriteSheet(s1, "frame_test", <<"B3", "B4", "F2", "F3">>, texts)
    IN  WriteSheet(s2, "frame_assembly", <<"B3", "B4", "F2", "F3">>, texts)

(***************************************************************************)
(* Return values, dialogs and I/O events                                   *)
(***************************************************************************)

\* a returned (or raised) value, with every field present
Ret(tag, success, count, path, message) ==
    [tag |-> tag, success |-> success, count |-> count, path |-> path,
     message |-> message]
\* "return False"
RetBool(b) == Ret("bool", b, 0, None, <<>>)
\* "return success, path"
RetPair(b, path) == Ret("tuple", b, 0, path, <<>>)
\* "return replacement_count, new_file_path"
RetCount(n, path) == Ret("count", n > 0, n, path, <<>>)
\* "raise Exception(f"...: {str(e)}")": the message ends with the cause's
RetRaise(cause) == Ret("raise", FALSE, 0, None, <<"word_error:", cause>>)
\* a validation dict {"valid", "message"}
RetDict(d) == Ret("dict", d.valid, 0, None, d.message)
\* nothing returned
RetNone == Ret("none", FALSE, 0, None, <<>>)

\* messagebox.showerror / showwarning / showinfo
Dialog(kind, about, text) == [kind |-> kind, about |-> about, text |-> text]

\* an attempt to open, test or save a file
Io(what, path) == [what |-> what, path |-> path]

\* dict.update of the file system by a save
Save(files, path, content) ==
    [q \in DOMAIN files \cup {path} |-> IF q = path THEN content ELSE files[q]]

(***************************************************************************)
(* write_to_excel                                                          *)
(* save_ok: whether wb.save succeeds (the disk, the permissions)           *)
(***************************************************************************)

write_to_excel(files, t, username, model, manufacturing, order, file_path0, save_ok) ==
    LET file_path == IF file_path0 = None THEN DEFAULT_EXCEL_FILE ELSE file_path0
        new_file_path == OutputPath(file_path, t)
        probe == IF file_path0 = None THEN <<Io("exists", file_path)>> ELSE <<>>
        failed(io) == [ret |-> RetPair(FALSE, None), fs |-> files, io |-> io,
                       dialogs |-> <<Dialog("showerror", "excel_failed", <<>>)>>]
    IN  IF file_path0 = None /\ ~Exists(files, file_path)
        THEN [ret |-> RetBool(FALSE), fs |-> files, io |-> probe,
              dialogs |-> <<Dialog("showerror", "file_not_found", <<>>)>>]
        ELSE IF ~Exists(files, file_path) \/ files[file_path].kind # "xlsx"
        THEN failed(probe \o <<Io("open_failed", file_path)>>)
        ELSE IF ~save_ok
        THEN failed(probe \o <<Io("open", file_path), Io("save_failed", new_file_path)>>)
        ELSE [ret |-> RetPair(TRUE, new_file_path),
              fs |-> Save(files, new_file_path,
                          [files[file_path] EXCEPT
                             !.sheets = WriteSheets(@, username, model,
                                                    manufacturing, order)]),
              io |-> probe \o <<Io("open", file_path), Io("save", new_file_path)>>,
              dialogs |-> <<Dialog("showinfo", "excel_done", <<>>)>>]

(***************************************************************************)
(* replace_text_in_word and process_word_file                              *)
(***************************************************************************)

replace_text_in_word(files, t, file_path, search_text, replace_text, save_ok) ==
    LET new_file_path == OutputPath(file_path, t)
    IN  IF ~Exists(files, file_path) \/ files[file_path].kind # "docx"
        THEN [ret |-> RetRaise("open_failed"), fs |-> files,
              io |-> <<Io("open_failed", file_path)>>]
        ELSE LET r == ReplacePasses(files[file_path], search_text, replace_text)
             IN  IF PassRaises(files[file_path], search_text, replace_text)
                 THEN [ret |-> RetRaise("TypeError"), fs |-> files,
                       io |-> <<Io("open", file_path)>>]
                 ELSE IF ~save_ok
                 THEN [ret |-> RetRaise("save_failed"), fs |-> files,
                       io |-> <<Io("open", file_path),
                                Io("save_failed", new_file_path)>>]
                 ELSE [ret |-> RetCount(r.count, new_file_path),
                       fs |-> Save(files, new_file_path, r.doc),
                       io |-> <<Io("open", file_path), Io("save", new_file_path)>>]

\* f"{order}/{manufacturing}"
ReplacementText(manufacturing, order) == order \o <<"/">> \o manufacturing

process_word_file(files, t, username, model, manufacturing, order, file_path0, save_ok) ==
    LET file_path == IF file_path0 = None THEN DEFAULT_WORD_FILE ELSE file_path0
        probe == IF file_path0 = None THEN <<Io("exists", file_path)>> ELSE <<>>
    IN  IF file_path0 = None /\ ~Exists(files, file_path)
        THEN [ret |-> RetBool(FALSE), fs |-> files, io |-> probe,
              dialogs |-> <<Dialog("showerror", "file_not_found", <<>>)>>]
        ELSE LET r == replace_text_in_word(files, t, file_path, REPLACEMENT_KEY,
                          ReplacementText(manufacturing, order), save_ok)
             IN  IF r.ret.tag = "raise"
                 THEN [ret |-> RetPair(FALSE, None), fs |-> r.fs, io |-> probe \o r.io,
                       dialogs |-> <<Dialog("showerror", "word_failed", <<>>)>>]
                 ELSE IF r.ret.count > 0
                 THEN [ret |-> RetPair(TRUE, r.ret.path), fs |-> r.fs,
                       io |-> probe \o r.io,
                       dialogs |-> <<Dialog("showinfo", "word_done", <<>>)>>]
                 ELSE [ret |-> RetPair(FALSE, None), fs |-> r.fs,
                       io |-> probe \o r.io,
                       dialogs |-> <<Dialog("showwarning", "key_not_found", <<>>)>>]


(***************************************************************************)
(* The record of an operation                                              *)
(***************************************************************************)

NoFile == [kind |-> "none"]
NoArgs == << <<>>, <<>>, <<>>, <<>> >>

\* the path an operation saved to, None when it saved nothing
SavedPath(io) ==
    IF \E i \in 1..Len(io) : io[i].what = "save"
    THEN io[CHOOSE i \in 1..Len(io) : io[i].what = "save"].path
    ELSE None

Content(files, path) == IF Exists(files, path) THEN files[path] ELSE NoFile

\* op: the function called; a: its four strings; file_path: the path given
\* (None: the default); source_path: the file it works on; source: that
\* file's content before the call; text: the replacement text; writer: the
\* writer a handler went on to call; at: the tick of the call; io: its file
\* I/O; saved: the path it saved to
Call(op, a, file_path, source_path, source, text, writer, at, ret, io) ==
    [op |-> op, args |-> a, file_path |-> file_path, source_path |-> source_path,
     source |-> source, text |-> text, writer |-> writer, at |-> at, ret |-> ret,
     io |-> io, saved |-> SavedPath(io)]

NoCall == Call("none", NoArgs, None, None, NoFile, <<>>, "none", 0, RetNone, <<>>)

(***************************************************************************)
(* The handlers of the buttons                                             *)
(***************************************************************************)

\* os.path.basename
Basename(path) == SubSeq(path, RFind(path, "/") + 1, Len(path))

\* display_result: the pane is cleared and the result block inserted
DisplayResult(username, model, manufacturing, order, t) ==
    << <<"result", "username:">> \o username \o <<"model:">> \o model
       \o <<"manufacturing:">> \o manufacturing \o <<"order:">> \o order
       \o <<"time:", Timestamp(t)>> >>

\* the outcome of a handler that stopped at the validation
Rejected(files, a, text, validation) ==
    [args |-> a, writer |-> "none", ret |-> RetNone, fs |-> files, io |-> <<>>,
     dialogs |-> <<Dialog("showerror", "input_error", validation.message)>>,
     result_text |-> text]

\* what follows "success, new_file_path = <writer>(...)" in both handlers:
\* unpacking a bare False raises TypeError, which the handler's except
\* clause turns into one more error dialog
AfterWriter(a, writer, r, text, t, block) ==
    IF r.ret.tag # "tuple"
    THEN [args |-> a, writer |-> writer, ret |-> r.ret, fs |-> r.fs, io |-> r.io,
          dialogs |-> r.dialogs \o <<Dialog("showerror", "handler_error", <<>>)>>,
          result_text |-> text]
    ELSE [args |-> a, writer |-> writer, ret |-> r.ret, fs |-> r.fs, io |-> r.io,
          dialogs |-> r.dialogs,
          result_text |->
              IF r.ret.success
              THEN DisplayResult(a[1], a[2], a[3], a[4], t)
                   \o << <<block>> \o Basename(r.ret.path) >>
              ELSE text]

\* a faulty variant: the writer is called without looking at the validation result
WriteToExcelDirectUnchecked(files, t, u, m, f, o, text, save_ok) ==
    LET a == <<Strip(u), Strip(m), Strip(f), Strip(o)>>
    IN  AfterWriter(a, "write_to_excel",
                    write_to_excel(files, t, a[1], a[2], a[3], a[4], None, save_ok),
                    text, t, "excel_result")

\* write_to_excel_direct, on the entries' contents u, m, f, o
WriteToExcelDirect(files, t, u, m, f, o, text, save_ok) ==
    LET a == <<Strip(u), Strip(m), Strip(f), Strip(o)>>
        validation_result == validate_inputs(a[1], a[2], a[3], a[4])
    IN  IF ~validation_result.valid
        THEN Rejected(files, a, text, validation_result)
        ELSE AfterWriter(a, "write_to_excel",
                 write_to_excel(files, t, a[1], a[2], a[3], a[4], None, save_ok),
                 text, t, "excel_result")

\* process_word_direct
ProcessWordDirect(files, t, u, m, f, o, text, save_ok) ==
    LET a == <<Strip(u), Strip(m), Strip(f), Strip(o)>>
        validation_result == validate_inputs(a[1], a[2], a[3], a[4])
    IN  IF ~validation_result.valid
        THEN Rejected(files, a, text, validation_result)
        ELSE AfterWriter(a, "process_word_file",
                 process_word_file(files, t, a[1], a[2], a[3], a[4], None, save_ok),
                 text, t, "word_result")

\* execute_rpa: validate, print, show
ExecuteRpa(files, t, u, m, f, o, text) ==
    LET a == <<Strip(u), Strip(m), Strip(f), Strip(o)>>
        validation_result == validate_inputs(a[1], a[2], a[3], a[4])
    IN  IF ~validation_result.valid
        THEN Rejected(files, a, text, validation_result)
        ELSE [args |-> a, writer |-> "none", ret |-> RetNone, fs |-> files,
              io |-> <<>>,
              dialogs |-> <<Dialog("showinfo", "run_done", <<>>)>>,
              result_text |-> DisplayResult(a[1], a[2], a[3], a[4], t)]


(***************************************************************************)
(* The documents, workbooks and paths the operations are run on            *)
(***************************************************************************)

\* the clock runs to this tick
MaxClock == 3

\* operations run in a row on one file system
MaxOps == 2

X == <<"x">>
KeyHead == SubSeq(REPLACEMENT_KEY, 1, 3)
KeyTail == SubSeq(REPLACEMENT_KEY, 4, 6)

\* a document: one body paragraph of two runs, a table, a table nested in
\* it, optionally an XML comment, a floating text box; a header and a footer
\* paragraph and a table in the header
MkDoc(b1, b2, tb, nt, cm, sh, hd, ht, ft) ==
    [ kind   |-> "docx",
      body   |-> << Node("body", 1, b1), Node("body", 1, b2),
                    Node("table", 2, tb), Node("nested_table", 3, nt) >>
                 \o (IF cm THEN << Node("comment", 0, <<>>) >> ELSE <<>>)
                 \o << Node("shape", 4, sh) >>,
      header |-> << Node("header", 1, hd), Node("header_table", 2, ht) >>,
      footer |-> << Node("footer", 1, ft) >> ]

Docs ==
    { MkDoc(b1, b2, tb, nt, cm, sh, hd, ht, ft) :
        b1 \in { X, REPLACEMENT_KEY, REPLACEMENT_KEY \o X \o REPLACEMENT_KEY,
                 KeyHead, REPLACEMENT_KEY \o <<"k6">> },
        b2 \in { X, REPLACEMENT_KEY, KeyTail },
        tb \in { X, REPLACEMENT_KEY }, nt \in { X, REPLACEMENT_KEY },
        cm \in BOOLEAN, sh \in { X, REPLACEMENT_KEY },
        hd \in { X, REPLACEMENT_KEY }, ht \in { X, REPLACEMENT_KEY },
        ft \in { X, REPLACEMENT_KEY } }

FewDocs ==
    { MkDoc(X, X, X, X, FALSE, X, X, X, X),
      MkDoc(REPLACEMENT_KEY, X, X, X, FALSE, REPLACEMENT_KEY, X, X, REPLACEMENT_KEY) }

SheetNames == {"assembly_check", "frame_test", "frame_assembly", "other"}

\* a workbook with the given sheets, every cell of which holds fill
MkWorkbook(names, fill) ==
    [ kind |-> "xlsx", sheets |-> [n \in names |-> [c \in Cells |-> fill]] ]

\* a workbook file has at least one sheet
Workbooks ==
    { MkWorkbook(names, fill) :
        names \in (SUBSET SheetNames) \ { {} }, fill \in { <<>>, <<"old">> } }

FewWorkbooks ==
    { MkWorkbook(SheetNames, <<"old">>), MkWorkbook({"frame_test", "other"}, <<>>) }

\* source paths: a plain name, a dotted directory with an extensionless
\* file, a name of dots only before its last dot, two dots in the name
WordPaths ==
    { DEFAULT_WORD_FILE, <<"dir", ".", "d", "/", "report">>,
      <<".", ".", "docx">>, <<"a", ".", "b", ".", "docx">> }
ExcelPaths ==
    { DEFAULT_EXCEL_FILE, <<"dir", ".", "d", "/", "book">>, <<".", "xlsx">> }

\* a path no file is at
MissingPath == <<"missing", ".", "docx">>

\* the strings the writers are called with
WriterArgs ==
    { << <<"KA">>, <<"2","0","1">> \o ModelTail,
         <<"J","0","0","0","2","3","1","5","0","1","0","0">>,
         <<"O","2","3","1","5">> >> }

\* the replacement text of the repeated calls
RepeatTexts == { <<"r">> }

\* the replacement texts replace_text_in_word is called with: one without
\* a character of the marker, one that holds the marker, one that ends where
\* the marker's last character would complete it, and one that is no str
ReplaceTexts ==
    { <<"r">>, <<"r">> \o REPLACEMENT_KEY, SubSeq(REPLACEMENT_KEY, 1, 5), NotAStr }

File(path, content) == [q \in {path} |-> content]
Files2(p1, c1, p2, c2) == [q \in {p1, p2} |-> IF q = p1 THEN c1 ELSE c2]

(***************************************************************************)
(* Initial states                                                          *)
(***************************************************************************)

Idle ==
    /\ username_var = <<>> /\ model_var = <<>>
    /\ manufacturing_var = <<>> /\ order_var = <<>>
    /\ dialogs = <<>> /\ io_log = <<>> /\ result_text = <<>>
    /\ call = NoCall /\ prev_call = NoCall

\* the validation check: four strings, no file
InitValidate ==
    /\ Idle
    /\ args \in InputTuples
    /\ fs = <<>> /\ now = 0 /\ steps = 1

\* one call of a writer: on every document, on a few documents at every
\* kind of path, or on every workbook
InitFiles ==
    /\ Idle
    /\ args = NoArgs
    /\ now = 0 /\ steps = 1
    /\ \/ \E d \in Docs : fs = File(DEFAULT_WORD_FILE, d)
       \/ \E p \in WordPaths, d \in FewDocs : fs = File(p, d)
       \/ \E p \in ExcelPaths, w \in Workbooks : fs = File(p, w)

\* MaxOps calls in a row, on a document and a workbook at the default paths
InitRepeat ==
    /\ Idle
    /\ args = NoArgs
    /\ now = 0 /\ steps = MaxOps
    /\ \E d \in FewDocs, w \in FewWorkbooks :
           fs = Files2(DEFAULT_WORD_FILE, d, DEFAULT_EXCEL_FILE, w)

\* the window: empty entries, the default files there or not, and one
\* button pressed
InitGui ==
    /\ Idle
    /\ args = NoArgs
    /\ now = 0 /\ steps = 1
    /\ \/ fs = <<>>
       \/ \E d \in FewDocs : fs = File(DEFAULT_WORD_FILE, d)
       \/ \E w \in FewWorkbooks : fs = File(DEFAULT_EXCEL_FILE, w)
       \/ \E d \in FewDocs, w \in FewWorkbooks :
              fs = Files2(DEFAULT_WORD_FILE, d, DEFAULT_EXCEL_FILE, w)


(***************************************************************************)
(* Actions                                                                 *)
(***************************************************************************)

gui == <<username_var, model_var, manufacturing_var, order_var>>

\* time passes
Tick ==
    /\ now < MaxClock
    /\ now' = now + 1
    /\ UNCHANGED <<args, gui, fs, dialogs, io_log, result_text, call, prev_call, steps>>

\* validate_inputs(username, model, manufacturing, order)
CallValidateInputs ==
    /\ steps > 0
    /\ call' = Call("validate_inputs", args, None, None, NoFile, <<>>, "none", now,
                    RetDict(validate_inputs(args[1], args[2], args[3], args[4])),
                    <<>>)
    /\ prev_call' = call
    /\ steps' = steps - 1
    /\ UNCHANGED <<args, gui, fs, now, dialogs, io_log, result_text>>

\* validate_manufacturing_order_consistency(manufacturing, order)
CallConsistency ==
    /\ steps > 0
    /\ call' = Call("consistency", args, None, None, NoFile, <<>>, "none", now,
                    RetDict(validate_manufacturing_order_consistency(args[3], args[4])),
                    <<>>)
    /\ prev_call' = call
    /\ steps' = steps - 1
    /\ UNCHANGED <<args, gui, fs, now, dialogs, io_log, result_text>>

\* the paths a writer is called with: a file there is, a file there is not,
\* or None for the default file
CallPaths == DOMAIN fs \cup {None, MissingPath}

\* write_to_excel(username, model, manufacturing, order, file_path)
CallWriteToExcel(a, file_path, save_ok) ==
    /\ steps > 0
    /\ LET r == write_to_excel(fs, now, a[1], a[2], a[3], a[4], file_path, save_ok)
           source_path == IF file_path = None THEN DEFAULT_EXCEL_FILE ELSE file_path
       IN  /\ fs' = r.fs
           /\ dialogs' = r.dialogs
           /\ io_log' = r.io
           /\ call' = Call("write_to_excel", a, file_path, source_path,
                           Content(fs, source_path), <<>>, "none", now, r.ret, r.io)
    /\ prev_call' = call
    /\ steps' = steps - 1
    /\ UNCHANGED <<args, gui, now, result_text>>

\* process_word_file(username, model, manufacturing, order, file_path)
CallProcessWordFile(a, file_path, save_ok) ==
    /\ steps > 0
    /\ LET r == process_word_file(fs, now, a[1], a[2], a[3], a[4], file_path, save_ok)
           source_path == IF file_path = None THEN DEFAULT_WORD_FILE ELSE file_path
       IN  /\ fs' = r.fs
           /\ dialogs' = r.dialogs
           /\ io_log' = r.io
           /\ call' = Call("process_word_file", a, file_path, source_path,
                           Content(fs, source_path),
                           ReplacementText(a[3], a[4]), "none", now, r.ret, r.io)
    /\ prev_call' = call
    /\ steps' = steps - 1
    /\ UNCHANGED <<args, gui, now, result_text>>

\* replace_text_in_word(file_path, REPLACEMENT_KEY, replace_text)
CallReplaceTextInWord(file_path, replace_text, save_ok) ==
    /\ steps > 0
    /\ file_path # None
    /\ LET r == replace_text_in_word(fs, now, file_path, REPLACEMENT_KEY,
                                     replace_text, save_ok)
       IN  /\ fs' = r.fs
           /\ dialogs' = <<>>
           /\ io_log' = r.io
           /\ call' = Call("replace_text_in_word", NoArgs, file_path, file_path,
                           Content(fs, file_path), replace_text, "none", now,
                           r.ret, r.io)
    /\ prev_call' = call
    /\ steps' = steps - 1
    /\ UNCHANGED <<args, gui, now, result_text>>

\* what the entries are filled with: padded, valid, invalid, inconsistent
EntryUsernames == { <<"SP", "KA", "SP">>, <<"x">> }
EntryModels ==
    { <<"2","0","1">> \o ModelTail, <<"2","0","1">> \o ModelTail \o <<"NL">>,
      <<"3","0","0">> \o ModelTail }
EntryManufacturing ==
    { <<"J","0","0","0","2","3","1","5","0","1","0","0">>,
      <<>> }
EntryOrders == { <<"O","2","3","1","5">>, <<"O","9","9","9","9">> }

\* the operator types into the four entries
TypeEntries(u, m, f, o) ==
    /\ username_var' = u /\ model_var' = m
    /\ manufacturing_var' = f /\ order_var' = o
    /\ UNCHANGED <<args, fs, now, dialogs, io_log, result_text, call, prev_call, steps>>

\* clear_inputs
ClearInputs ==
    /\ username_var' = <<>> /\ model_var' = <<>>
    /\ manufacturing_var' = <<>> /\ order_var' = <<>>
    /\ result_text' = <<>>
    /\ UNCHANGED <<args, fs, now, dialogs, io_log, call, prev_call, steps>>

\* a button's handler ran with outcome h
Handled(op, h) ==
    /\ fs' = h.fs
    /\ dialogs' = h.dialogs
    /\ io_log' = h.io
    /\ result_text' = h.result_text
    /\ call' = Call(op, h.args, None,
                    IF h.writer = "write_to_excel" THEN DEFAULT_EXCEL_FILE
                    ELSE IF h.writer = "process_word_file" THEN DEFAULT_WORD_FILE
                    ELSE None,
                    NoFile,
                    IF h.writer = "process_word_file"
                    THEN ReplacementText(h.args[3], h.args[4]) ELSE <<>>,
                    h.writer, now, h.ret, h.io)
    /\ steps' = steps - 1
    /\ UNCHANGED <<args, gui, now, prev_call>>

PressExecute ==
    /\ steps > 0
    /\ Handled("execute_rpa",
               ExecuteRpa(fs, now, username_var, model_var, manufacturing_var,
                          order_var, result_text))

PressExcel(save_ok) ==
    /\ steps > 0
    /\ Handled("write_to_excel_direct",
               WriteToExcelDirect(fs, now, username_var, model_var,
                                  manufacturing_var, order_var, result_text, save_ok))

PressWord(save_ok) ==
    /\ steps > 0
    /\ Handled("process_word_direct",
               ProcessWordDirect(fs, now, username_var, model_var,
                                 manufacturing_var, order_var, result_text, save_ok))

(***************************************************************************)
(* Specifications                                                          *)
(***************************************************************************)

NextValidate ==
    \/ CallValidateInputs
    \/ CallConsistency

NextFiles ==
    \/ Tick
    \/ \E a \in WriterArgs, p \in CallPaths, ok \in BOOLEAN : CallWriteToExcel(a, p, ok)
    \/ \E a \in WriterArgs, p \in CallPaths, ok \in BOOLEAN : CallProcessWordFile(a, p, ok)
    \/ \E p \in CallPaths, r \in ReplaceTexts, ok \in BOOLEAN :
           CallReplaceTextInWord(p, r, ok)

\* the files that are not the output of an earlier call, of one kind
Sources(kind) ==
    { p \in DOMAIN fs : fs[p].kind = kind /\ \A i \in 1..Len(p) : p[i] # "_processed_" }

NextRepeat ==
    \/ Tick
    \/ \E a \in WriterArgs, p \in Sources("xlsx") \cup {None}, ok \in BOOLEAN :
           CallWriteToExcel(a, p, ok)
    \/ \E a \in WriterArgs, p \in Sources("docx") \cup {None}, ok \in BOOLEAN :
           CallProcessWordFile(a, p, ok)
    \/ \E p \in Sources("docx"), r \in RepeatTexts, ok \in BOOLEAN :
           CallReplaceTextInWord(p, r, ok)

NextGui ==
    \/ Tick
    \/ \E u \in EntryUsernames, m \in EntryModels, f \in EntryManufacturing,
          o \in EntryOrders : TypeEntries(u, m, f, o)
    \/ ClearInputs
    \/ PressExecute
    \/ \E ok \in BOOLEAN : PressExcel(ok)
    \/ \E ok \in BOOLEAN : PressWord(ok)

\* the validation functions on every input tuple
SpecValidate == InitValidate /\ [][NextValidate]_vars

\* one call of a writer on a file
SpecFiles == InitFiles /\ [][NextFiles]_vars

\* the writers called repeatedly on the same files
SpecRepeat == InitRepeat /\ [][NextRepeat]_vars

\* the window and its buttons
Spec == InitGui /\ [][NextGui]_vars


(***************************************************************************)
(* Properties of the validation (checked under SpecValidate)               *)
(***************************************************************************)

\* the whole string s is prefix + "-" + 4 digits + "." + 6 digits
IsModelCode(s) ==
    /\ Len(s) = 15
    /\ SubSeq(s, 1, 3) \in SUPPORTED_MODELS
    /\ s[4] = "-" /\ s[9] = "."
    /\ \A i \in (5..8) \cup (10..15) : s[i] \in Digit

\* the whole string s is "J000" + 4 digits + "0" + a digit 1-9 + "00"
IsManufacturingNumber(s) ==
    /\ Len(s) = 12
    /\ SubSeq(s, 1, 4) = <<"J","0","0","0">>
    /\ \A i \in 5..8 : s[i] \in Digit
    /\ s[9] = "0" /\ s[10] \in Digit19 /\ s[11] = "0" /\ s[12] = "0"

\* the whole string s is one of O/N/T + 4 digits
IsOrderNumber(s) ==
    /\ Len(s) = 5
    /\ s[1] \in {"O", "N", "T"}
    /\ \A i \in 2..5 : s[i] \in Digit

\* non-blank, with a character of the Japanese ranges
IsUsername(s) ==
    /\ \E i \in 1..Len(s) : s[i] \notin Whitespace
    /\ \E i \in 1..Len(s) : s[i] \in JapaneseRange

\* characters 5-8 of the manufacturing number are characters 2-5 of the order
SegmentsAgree(manufacturing, order) ==
    /\ Len(manufacturing) >= 8 /\ Len(order) >= 5
    /\ \A i \in 1..4 : manufacturing[4 + i] = order[1 + i]

\* C1: validate_inputs returns valid=true exactly when the user name is
\* non-blank with a Japanese-range character, the model, manufacturing and
\* order strings each are, as whole strings, of their grammar, and the
\* manufacturing and order segments agree.
C1_ValidIffWholeStringGrammar ==
    call.op = "validate_inputs" =>
        (call.ret.success <=>
            /\ IsUsername(call.args[1])
            /\ IsModelCode(call.args[2])
            /\ IsManufacturingNumber(call.args[3])
            /\ IsOrderNumber(call.args[4])
            /\ SegmentsAgree(call.args[3], call.args[4]))

FieldNames == <<"username", "model", "manufacturing", "order">>

\* the result of checking field i of a alone
FieldResult(a, i) ==
    IF i = 1 THEN validate_username(a[1])
    ELSE IF i = 2 THEN validate_model(a[2])
    ELSE IF i = 3 THEN validate_manufacturing_number(a[3])
    ELSE validate_order_number(a[4])

\* C2: validate_inputs reports one failure: that of the earliest invalid
\* field in the order username, model, manufacturing, order, prefixed with
\* the field's name; a mismatch of the two segments is reported only when
\* all four fields are valid.
C2_FirstFailureInFieldOrder ==
    call.op = "validate_inputs" =>
        LET bad == {i \in 1..4 : ~FieldResult(call.args, i).valid}
        IN  /\ bad # {} =>
                \E i \in bad :
                    /\ \A j \in bad : i <= j
                    /\ ~call.ret.success
                    /\ call.ret.message
                         = <<FieldNames[i], ":">> \o FieldResult(call.args, i).message
            /\ (call.ret.message # <<>> /\ Head(call.ret.message) = "mismatch")
                  => bad = {}
            /\ (bad = {} /\ ~call.ret.success)
                  => Head(call.ret.message) = "mismatch"

\* C2's case: the model and the order are both invalid, the user name is
\* valid, and the model's failure is the one reported
C2_Witness ==
    /\ call.op = "validate_inputs"
    /\ FieldResult(call.args, 1).valid
    /\ ~FieldResult(call.args, 2).valid
    /\ ~FieldResult(call.args, 4).valid
    /\ Head(call.ret.message) = "model"

MutatingHandlers == {"write_to_excel_direct", "process_word_direct"}

\* the step is a run of one of the two handlers that mutate a document
MutatingHandlerStep == steps' = steps - 1 /\ call'.op \in MutatingHandlers

\* C4: in write_to_excel_direct and process_word_direct the validation comes
\* before any file I/O.  When validate_inputs refuses the stripped entries,
\* the handler opens nothing, tests no file's existence, saves nothing
\* (the file system is as before) and shows exactly one error dialog, with
\* the validation message; a writer is called only with the stripped entries
\* and only when validate_inputs accepts them.
C4_ValidationBeforeFileIO ==
    [][ MutatingHandlerStep =>
          LET a == <<Strip(username_var), Strip(model_var),
                     Strip(manufacturing_var), Strip(order_var)>>
              v == validate_inputs(a[1], a[2], a[3], a[4])
          IN  /\ ~v.valid =>
                    /\ io_log' = <<>>
                    /\ fs' = fs
                    /\ call'.writer = "none"
                    /\ dialogs' = <<Dialog("showerror", "input_error", v.message)>>
              /\ call'.writer # "none" => (v.valid /\ call'.args = a)
              /\ io_log' # <<>> => call'.writer # "none" ]_vars

\* C4's case: the Excel button was pressed on entries that fail the
\* validation while the default workbook is there: one input-error dialog,
\* no I/O
C4_Witness ==
    /\ call.op = "write_to_excel_direct"
    /\ ~validate_inputs(call.args[1], call.args[2], call.args[3], call.args[4]).valid
    /\ call.args[1] # <<>>
    /\ Exists(fs, DEFAULT_EXCEL_FILE)
    /\ Len(dialogs) = 1 /\ dialogs[1].about = "input_error"
    /\ io_log = <<>>


(***************************************************************************)
(* Properties of the writers (checked under SpecFiles and SpecRepeat)      *)
(***************************************************************************)

Writers == {"write_to_excel", "process_word_file", "replace_text_in_word"}

\* an extension: nothing, or a dot and at most one name after it
IsExtension(e) ==
    \/ e = <<>>
    \/ /\ Len(e) \in {1, 2}
       /\ e[1] = "."
       /\ \A i \in 2..Len(e) : e[i] \notin {".", "/"}

\* C5: a writer never saves to its source path: the path it saves to is
\* <stem>_processed_<timestamp><extension> of the source path, which is not
\* the source path, and the source file holds after the call what it held
\* before, whether the call saved or failed.
C5_NeverSavesToSource ==
    call.op \in Writers =>
        /\ Content(fs, call.source_path) = call.source
        /\ call.saved # None =>
              /\ call.saved # call.source_path
              /\ \E k \in 0..Len(call.source_path) :
                    /\ IsExtension(SubSeq(call.source_path, k + 1,
                                          Len(call.source_path)))
                    /\ call.saved
                         = SubSeq(call.source_path, 1, k)
                           \o <<"_processed_", Timestamp(call.at)>>
                           \o SubSeq(call.source_path, k + 1, Len(call.source_path))

\* C5's case: the replacer saved the output of a source without extension
\* in a dotted directory, some time after the start
C5_Witness ==
    /\ call.op = "replace_text_in_word"
    /\ call.at > 0
    /\ call.source_path = <<"dir", ".", "d", "/", "report">>
    /\ call.saved = <<"dir", ".", "d", "/", "report", "_processed_", Timestamp(call.at)>>
    /\ Content(fs, call.source_path) = call.source

\* the text units of a document
TextUnits(doc) ==
    { n \in {doc.body[i] : i \in DOMAIN doc.body}
            \cup {doc.header[i] : i \in DOMAIN doc.header}
            \cup {doc.footer[i] : i \in DOMAIN doc.footer} : n.region # "comment" }

\* no text unit of the document holds the marker
NoMarker(doc) == \A n \in TextUnits(doc) : ~Contains(n.text, REPLACEMENT_KEY)

\* C6: after replace_text_in_word returned with a replacement string that
\* does not hold the marker, no text unit of the saved document holds the
\* marker, whatever region it is in.
C6_NoMarkerLeftAnywhere ==
    ( /\ call.op = "replace_text_in_word"
      /\ call.ret.tag = "count"
      /\ call.text # NotAStr
      /\ ~Contains(call.text, REPLACEMENT_KEY) )
    => NoMarker(fs[call.saved])

\* how a call of process_word_file went: "error" when opening or saving
\* raised, "no_file" when the default file was missing, "not_found" when
\* the document was saved with nothing replaced, else "replaced"
Outcome(c) ==
    IF \E i \in 1..Len(c.io) : c.io[i].what \in {"open_failed", "save_failed"}
    THEN "error"
    ELSE IF c.saved = None THEN "no_file"
    ELSE IF ReplacePasses(c.source, REPLACEMENT_KEY, c.text).count = 0
    THEN "not_found"
    ELSE "replaced"

\* C7: what process_word_file returns when the marker was not found differs
\* from what it returns when opening or saving raised, and from what it
\* returns after a replacement: two calls with different outcomes among
\* these three return different values.
C7_ZeroCountDistinctFromError ==
    ( /\ call.op = "process_word_file" /\ prev_call.op = "process_word_file"
      /\ Outcome(call) \in {"error", "not_found", "replaced"}
      /\ Outcome(prev_call) \in {"error", "not_found", "replaced"}
      /\ Outcome(call) # Outcome(prev_call) )
    => call.ret # prev_call.ret

\* C8: on a source without the marker the replacer counts zero, changes no
\* text unit, still saves an output file and returns that file's path.
C8_ZeroCountStillReturnsPath ==
    ( /\ call.op \in {"process_word_file", "replace_text_in_word"}
      /\ call.source.kind = "docx"
      /\ NoMarker(call.source)
      /\ \A i \in 1..Len(call.io) : call.io[i].what # "save_failed" )
    => /\ call.ret.count = 0
       /\ call.saved # None
       /\ fs[call.saved] = call.source
       /\ call.ret.path = call.saved


\* the two calls are the same invocation, run twice in a row on a source
\* nothing touched in between, and both saved
SameInvocationTwice(p, c) ==
    /\ p.op \in Writers /\ c.op = p.op
    /\ c.args = p.args /\ c.file_path = p.file_path /\ c.text = p.text
    /\ p.source # NoFile /\ c.source = p.source
    /\ p.saved # None /\ c.saved # None

\* both calls opened the source and returned equal counts
ReopenedWithEqualCounts(p, c) ==
    /\ \E i \in 1..Len(p.io) : p.io[i] = Io("open", p.source_path)
    /\ \E i \in 1..Len(c.io) : c.io[i] = Io("open", c.source_path)
    /\ c.ret.count = p.ret.count
    /\ c.ret.success = p.ret.success

\* the two calls left two files at two paths, and the second call touched
\* no file at the first call's output path
IndependentOutputs(p, c) ==
    /\ c.saved # p.saved
    /\ Exists(fs, p.saved) /\ Exists(fs, c.saved)
    /\ fs[p.saved] = fs[c.saved]
    /\ \A i \in 1..Len(c.io) : c.io[i].path # p.saved

\* C9 as stated: two consecutive runs of one invocation on the same
\* untouched source reopen it, return equal counts and leave two independent
\* output files at two distinct paths, whatever the time between them.
C9_DistinctOutputsWhateverTheTime ==
    SameInvocationTwice(prev_call, call) =>
        /\ ReopenedWithEqualCounts(prev_call, call)
        /\ IndependentOutputs(prev_call, call)

\* C9 as amended: the two runs reopen the source and return equal counts;
\* their outputs are two independent files at two distinct paths when the
\* runs fall in different seconds of the clock, and when they fall in the
\* same second the second run saves over the first run's output.
C9_DistinctOutputsInDistinctSeconds ==
    SameInvocationTwice(prev_call, call) =>
        /\ ReopenedWithEqualCounts(prev_call, call)
        /\ Timestamp(prev_call.at) # Timestamp(call.at)
              => IndependentOutputs(prev_call, call)
        /\ Timestamp(prev_call.at) = Timestamp(call.at)
              => call.saved = prev_call.saved

\* C9's case: the replacer ran twice on one document with the marker, a
\* second or more apart, and both runs replaced something
C9_Witness ==
    /\ SameInvocationTwice(prev_call, call)
    /\ call.op = "replace_text_in_word"
    /\ Timestamp(prev_call.at) # Timestamp(call.at)
    /\ call.ret.count > 0
    /\ IndependentOutputs(prev_call, call)

\* the cells write_to_excel is to fill on a sheet, in the order user name,
\* model, order number, manufacturing number
DesignatedCells(name) ==
    IF name = "assembly_check" THEN <<"B4", "B5", "F4", "F5">>
    ELSE IF name \in {"frame_test", "frame_assembly"} THEN <<"B3", "B4", "F2", "F3">>
    ELSE <<>>

\* what cell c of sheet name is to hold after the call with strings a
ExpectedCell(before, name, c, a) ==
    LET d == DesignatedCells(name)
        labelled == << <<"username_label">> \o a[1], <<"model_label">> \o a[2],
                       <<"order_label">> \o a[4], <<"manufacturing_label">> \o a[3] >>
    IN  IF \E k \in 1..Len(d) : d[k] = c
        THEN labelled[CHOOSE k \in 1..Len(d) : d[k] = c]
        ELSE before[name][c]

\* C10: whichever of the three named sheets the workbook has, write_to_excel
\* succeeds and saves an output file (when the save itself does not fail);
\* the output has the sheets of the source, each named sheet with its four
\* designated cells set to the label + value strings and every other cell
\* as before; no sheet is added and no error is shown.
C10_OnlyPresentSheetsWritten ==
    ( /\ call.op = "write_to_excel"
      /\ call.source.kind = "xlsx"
      /\ \A i \in 1..Len(call.io) : call.io[i].what # "save_failed" )
    => /\ call.saved # None
       /\ call.ret = RetPair(TRUE, call.saved)
       /\ dialogs = <<Dialog("showinfo", "excel_done", <<>>)>>
       /\ DOMAIN fs[call.saved].sheets = DOMAIN call.source.sheets
       /\ \A n \in DOMAIN call.source.sheets : \A c \in Cells :
              fs[call.saved].sheets[n][c]
                 = ExpectedCell(call.source.sheets, n, c, call.args)

\* C10's case: a workbook with only the first of the three named sheets
\* (and another sheet) was written and saved
C10_Witness ==
    /\ call.op = "write_to_excel"
    /\ call.source.kind = "xlsx"
    /\ DOMAIN call.source.sheets = {"assembly_check", "other"}
    /\ call.saved # None
    /\ fs[call.saved].sheets["assembly_check"]["F5"]
          = <<"manufacturing_label">> \o call.args[3]
    /\ fs[call.saved].sheets["other"] = call.source.sheets["other"]


(***************************************************************************)
(* Properties of the handlers and their writers (checked under Spec)       *)
(***************************************************************************)

\* the handler went on to its writer, and the default file was not there
MissingDefaultFile(c) ==
    /\ c.op \in MutatingHandlers
    /\ c.writer # "none"
    /\ c.io = <<Io("exists", c.source_path)>>

\* C11: whenever write_to_excel_direct or process_word_direct calls its
\* writer, the writer returns a pair (success flag, output path or none) and
\* nothing is raised inside the handler; when the default file is missing,
\* that is reported by exactly one error dialog and no file is created.
C11_StructuredResultInEveryOutcome ==
    (call.op \in MutatingHandlers /\ call.writer # "none") =>
        /\ call.ret.tag = "tuple"
        /\ \A i \in 1..Len(dialogs) : dialogs[i].about # "handler_error"
        /\ MissingDefaultFile(call) =>
              /\ ~call.ret.success
              /\ call.saved = None
              /\ dialogs = <<Dialog("showerror", "file_not_found", <<>>)>>


(***************************************************************************)
(* Properties of the replacement passes (checked under SpecFiles)          *)
(***************************************************************************)

\* the call is a run of replace_text_in_word that saved and returned
Replaced(c) == c.op = "replace_text_in_word" /\ c.ret.tag = "count"

\* the places of the text units of a document: the part and the index in it
UnitPlaces(doc) ==
    { pl \in UNION { { <<part, i>> : i \in DOMAIN doc[part] } :
                        part \in {"body", "header", "footer"} } :
        doc[pl[1]][pl[2]].region # "comment" }

\* the text of the unit at a place
TextAt(doc, pl) == doc[pl[1]][pl[2]].text

\* the places whose text the call changed
ChangedPlaces(c, files) ==
    { pl \in UnitPlaces(c.source) : TextAt(files[c.saved], pl) # TextAt(c.source, pl) }

\* C12: whatever the replacement text, a text unit of the saved document
\* holds either its source text or its source text with every marker
\* occurrence replaced once (no pass rewrites what an earlier pass wrote),
\* and no text unit is counted more than once.
C12_RewrittenAndCountedOnce ==
    Replaced(call) =>
        /\ \A pl \in UnitPlaces(call.source) :
              TextAt(fs[call.saved], pl)
                 \in { TextAt(call.source, pl),
                       StrReplace(TextAt(call.source, pl), REPLACEMENT_KEY, call.text) }
        /\ call.ret.count <= Cardinality(ChangedPlaces(call, fs))

\* C13: the count replace_text_in_word returns is the number of text units
\* whose text changed, however many occurrences a unit held; it is zero
\* exactly when no text unit changed.
C13_CountIsChangedUnits ==
    Replaced(call) =>
        /\ call.ret.count = Cardinality(ChangedPlaces(call, fs))
        /\ call.ret.count = 0 <=> fs[call.saved] = call.source

\* the regions whose text units a pass outside the try block rewrites:
\* passes 1, 2 and 6
OuterPassRegions == {"body", "table", "header", "footer"}

\* the regions only the whole-document pass reaches
FallbackOnlyRegions == {"nested_table", "shape"}

\* a text unit of one of the regions holds the marker
HoldsMarkerIn(doc, regions) ==
    \E pl \in UnitPlaces(doc) :
        /\ doc[pl[1]][pl[2]].region \in regions
        /\ Contains(TextAt(doc, pl), REPLACEMENT_KEY)

\* opening raises: there is no document at the path
OpenRaises(c) == c.op = "replace_text_in_word" /\ c.source.kind # "docx"

\* a pass other than pass 5 raises: the replacement is no str and a unit
\* such a pass rewrites holds the marker
OuterPassRaises(c) ==
    /\ c.op = "replace_text_in_word" /\ c.source.kind = "docx"
    /\ c.text = NotAStr
    /\ HoldsMarkerIn(c.source, OuterPassRegions)

\* pass 5 raises and no other pass does: it meets an XML comment, or the
\* replacement is no str and only units of its own hold the marker
FallbackPassAloneRaises(c) ==
    /\ c.op = "replace_text_in_word" /\ c.source.kind = "docx"
    /\ ~OuterPassRaises(c)
    /\ \/ \E i \in DOMAIN c.source.body : c.source.body[i].region = "comment"
       \/ c.text = NotAStr /\ HoldsMarkerIn(c.source, FallbackOnlyRegions)

\* the call raised with the cause in its message, saved nothing, and left
\* the source as it was
RaisedWithoutOutput(c, files, cause) ==
    /\ c.ret = RetRaise(cause)
    /\ c.saved = None
    /\ ~Exists(files, OutputPath(c.source_path, c.at))
    /\ Content(files, c.source_path) = c.source

\* C14: when opening the document or a pass other than pass 5 raises,
\* replace_text_in_word saves nothing, leaves the source as it was and raises
\* an error whose message carries the cause; when pass 5 alone raises, the
\* header/footer pass and the save still run and the count reached is
\* returned with the output path.
C14_OnlyFallbackPassFailureIsSwallowed ==
    /\ OpenRaises(call) => RaisedWithoutOutput(call, fs, "open_failed")
    /\ OuterPassRaises(call) => RaisedWithoutOutput(call, fs, "TypeError")
    /\ ( /\ FallbackPassAloneRaises(call)
         /\ \A i \in 1..Len(call.io) : call.io[i].what # "save_failed" )
       => /\ call.ret.tag = "count"
          /\ call.saved # None /\ call.ret.path = call.saved
          /\ Content(fs, call.source_path) = call.source
          /\ call.ret.count >= Cardinality(ChangedPlaces(call, fs))
          /\ call.text # NotAStr =>
                \A pl \in UnitPlaces(call.source) :
                    call.source[pl[1]][pl[2]].region \in {"header", "footer"}
                    => TextAt(fs[call.saved], pl)
                         = StrReplace(TextAt(call.source, pl), REPLACEMENT_KEY,
                                      call.text)

\* C14's case: pass 5 met an XML comment after the body and table passes had
\* rewritten a run; the header run was rewritten all the same, the text box
\* after the comment was not, and the output was saved with a count of two
\* or more
C14_Witness ==
    /\ Replaced(call)
    /\ call.text = <<"r">>
    /\ \E i \in DOMAIN call.source.body : call.source.body[i].region = "comment"
    /\ TextAt(call.source, <<"body", 1>>) = REPLACEMENT_KEY
    /\ TextAt(call.source, <<"header", 1>>) = REPLACEMENT_KEY
    /\ TextAt(fs[call.saved], <<"body", 1>>) = <<"r">>
    /\ TextAt(fs[call.saved], <<"header", 1>>) = <<"r">>
    /\ TextAt(call.source, <<"body", 6>>) = REPLACEMENT_KEY
    /\ TextAt(fs[call.saved], <<"body", 6>>) = REPLACEMENT_KEY
    /\ call.ret.count >= 2

\* the runs at i and i + 1 of the body are two adjacent runs of one
\* paragraph, neither holds the marker, and together they do
SplitAt(doc, i) ==
    /\ i \in DOMAIN doc.body /\ i + 1 \in DOMAIN doc.body
    /\ doc.body[i].region = "body" /\ doc.body[i + 1].region = "body"
    /\ doc.body[i].para = doc.body[i + 1].para
    /\ ~Contains(doc.body[i].text, REPLACEMENT_KEY)
    /\ ~Contains(doc.body[i + 1].text, REPLACEMENT_KEY)
    /\ Contains(doc.body[i].text \o doc.body[i + 1].text, REPLACEMENT_KEY)

\* the document with other text in the two runs
WithoutSplit(doc, i) ==
    [doc EXCEPT !.body[i].text = X, !.body[i + 1].text = X]

\* C15: a marker split across two adjacent runs of a paragraph is left as
\* it is by replace_text_in_word: both runs keep their text, the paragraph's
\* text still holds the marker, and the count is what it would be with
\* other text in the two runs (zero when no text unit holds the marker).
C15_SplitMarkerLeftUnchanged ==
    Replaced(call) => \A i \in DOMAIN call.source.body :
        SplitAt(call.source, i) =>
            /\ TextAt(fs[call.saved], <<"body", i>>) = TextAt(call.source, <<"body", i>>)
            /\ TextAt(fs[call.saved], <<"body", i + 1>>)
                  = TextAt(call.source, <<"body", i + 1>>)
            /\ Contains(ParagraphText(fs[call.saved].body, "body",
                                      call.source.body[i].para), REPLACEMENT_KEY)
            /\ call.ret.count
                  = ReplacePasses(WithoutSplit(call.source, i), REPLACEMENT_KEY,
                                  call.text).count
            /\ NoMarker(call.source) =>
                  (call.ret.count = 0 /\ fs[call.saved] = call.source)

\* C15's case: the marker is split across the two runs of the body
\* paragraph and whole in a table cell; the call replaced the one in the
\* table, counted one, and left the two runs as they were
C15_Witness ==
    /\ Replaced(call)
    /\ call.text = <<"r">>
    /\ SplitAt(call.source, 1)
    /\ TextAt(call.source, <<"body", 3>>) = REPLACEMENT_KEY
    /\ TextAt(fs[call.saved], <<"body", 3>>) = <<"r">>
    /\ TextAt(fs[call.saved], <<"body", 1>>) = KeyHead
    /\ TextAt(fs[call.saved], <<"body", 2>>) = KeyTail
    /\ call.ret.count = 1

====
